---- MODULE Spec2Model ----
(***************************************************************************)
(* The engine lifecycle controller of query-engine-c-api (engine.rs): one  *)
(* QueryEngine shared by concurrent callers, its state `inner` behind a    *)
(* tokio RwLock, and the operations connect, disconnect, query,            *)
(* sdl_schema, dmmf, get_config and server_info.                           *)
(***************************************************************************)
EXTENDS Integers, Sequences, FiniteSets, TLC

\* ------------------------------------------------------------------ bounds
\* Number of concurrent callers sharing the engine (clones of the Arc).
NumCallers == 2
\* Number of executors exec_loader::load may create in one behaviour.
MaxExecs == 2

Procs == 1..NumCallers
NoProc == 0

\* ------------------------------------------------------- schema documents
\* The schema texts an engine may have been constructed from.  Every text
\* parses and declares at least one data source: QueryEngine::new unwraps
\* the first data source of the parsed schema before it builds the engine.
Schemas == {"schema_one", "schema_two"}

\* The data-source URLs a schema text declares, in declaration order.
DatasourcesOf(raw) ==
    IF raw = "schema_one" THEN <<"postgresql://one">>
    ELSE <<"mysql://two", "postgresql://spare">>

\* The data model the introspection of the live database returned for the
\* schema at construction.
IntrospectedAst(raw) == <<"ast", raw>>

\* datamodel::render_datamodel_and_config_to_string
RenderDatamodelAndConfig(ast, datasources) == <<"rendered", ast, datasources>>

\* The data sources written in a text (a raw schema or a rendered one).
DatasourcesIn(text) ==
    IF text \in Schemas THEN DatasourcesOf(text) ELSE text[3]

\* datamodel::parse_configuration: the validated configuration of a text.
ParseConfiguration(text) ==
    [datasources |-> DatasourcesIn(text), parsed_from |-> text]

\* Applying (name, url) overrides to the data sources; the engine only ever
\* stores the empty override list.
ApplyOverrides(datasources, overrides) ==
    [i \in DOMAIN datasources |->
        IF i \in DOMAIN overrides THEN overrides[i] ELSE datasources[i]]

\* datamodel::parse_configuration_with_url_overrides, on success.
ParseConfigurationWithUrlOverrides(raw, overrides) ==
    [datasources |-> ApplyOverrides(DatasourcesIn(raw), overrides),
     parsed_from |-> raw]

\* datamodel::json::mcf::config_to_mcf_json_value
ConfigToMcfJson(config) == <<"mcf", config.datasources>>

\* EngineDatamodel as QueryEngine::new stores it.
NewDatamodel(schema) ==
    [datasource_overrides |-> <<>>,
     ast |-> IntrospectedAst(schema),
     raw |-> schema]

\* The Inner::Builder value QueryEngine::new wraps in the lock.
NewBuilder(schema) ==
    [tag |-> "Builder",
     datamodel |-> NewDatamodel(schema),
     config |-> ParseConfiguration(
                    RenderDatamodelAndConfig(IntrospectedAst(schema),
                                             DatasourcesOf(schema)))]

\* db_name that exec_loader::load derives from the URL.
DbName(url) == <<"db", url>>

\* schema_builder::build over template.build(db_name)
BuildQuerySchema(ast, db_name) == [model |-> ast, db |-> db_name]

\* Connector::name of the executor's primary connector.
ConnectorName(url) == <<"connector", url>>

NoExec == [id |-> 0, url |-> "none"]
NoRet == [proc |-> NoProc, op |-> "none", res |-> "none", val |-> "none"]
NoRace == [members |-> {}, base |-> 0, ok |-> {}, rejected |-> {}]
NoHandler == [executor |-> NoExec, query_schema |-> "none"]

\* ---------------------------------------------------------------- state
VARIABLES
    schema,     \* the schema text the engine was constructed from
    inner,      \* Inner: the Builder or the Connected value behind the lock
    writer,     \* RwLock: the caller holding the write guard, or NoProc
    readers,    \* RwLock: the callers holding a read guard
    waitq,      \* RwLock: callers waiting for the lock, in arrival order
    pc,         \* each caller's position in its call
    op,         \* each caller's pending operation
    ret,        \* the call that returned in the last step: who, what, result
    executor,   \* connect's local `executor`, per caller
    handler,    \* query's GraphQlHandler (borrowed executor and schema)
    live,       \* ids of the executors created and not yet dropped
    nextExec,   \* number of executors created so far
    installs,   \* history: number of Connected values installed so far
    race,       \* history: a group of overlapping connect calls, see Issued
    input,      \* connector functions: the function called and its argument
    output,     \* connector functions: the value returned, or NoOutput
    constructed \* connector functions: the describers constructed so far

vars == <<schema, inner, writer, readers, waitq, pc, op, ret,
          executor, handler, live, nextExec, installs, race,
          input, output, constructed>>

\* The variables of the connector functions (error normalization, describer
\* loading); they take no part in the engine's lifecycle.
connectorVars == <<input, output, constructed>>

NoInput == [fn |-> "none"]
NoOutput == [returned |-> FALSE]

Operations == {"connect", "disconnect", "query", "sdl_schema", "dmmf",
               "get_config", "server_info"}

Lifecycle == {"connect", "disconnect"}

Init ==
    /\ schema \in Schemas
    /\ inner = NewBuilder(schema)
    /\ writer = NoProc
    /\ readers = {}
    /\ waitq = <<>>
    /\ pc = [p \in Procs |-> "idle"]
    /\ op = [p \in Procs |-> "none"]
    /\ ret = NoRet
    /\ executor = [p \in Procs |-> NoExec]
    /\ handler = [p \in Procs |-> NoHandler]
    /\ live = {}
    /\ nextExec = 0
    /\ installs = 0
    /\ race = NoRace
    /\ input = NoInput
    /\ output = NoOutput
    /\ constructed = {}

\* ----------------------------------------------------------- the RwLock
\* tokio::sync::RwLock is fair: waiters are served in arrival order, and a
\* caller that finds waiters queues behind them.
\* Mutant: a read guard is handed out while a write guard is held.
ReadIgnoresWriter == TRUE

ReadAvailable == writer = NoProc

\* Mutant: a write guard is handed out while read guards are held.
WriteIgnoresReaders == writer = NoProc

WriteAvailable == writer = NoProc /\ readers = {}

Available(kind) == IF kind = "write" THEN WriteAvailable ELSE ReadAvailable

\* The lock kind each operation asks for.
LockKind(o) == IF o \in Lifecycle THEN "write" ELSE "read"

\* Mutant: the replaced Inner value is forgotten, its executor never dropped.
DropNothing(old) == {}

\* Dropping an Inner value drops the executor a Connected value owns.
DropInner(old) == IF old.tag = "Connected" THEN {old.executor.id} ELSE {}

\* Calls that are issued and have not returned.
Pending(o) == {q \in Procs : pc[q] # "idle" /\ op[q] = o}

\* History: `race` follows one group of connect calls that overlap in time.
\* A connect issued on an Unconnected engine while no connect or disconnect
\* is pending opens a group; a connect by another caller, issued while a
\* member is still pending, joins it.  `base` is the number of executors
\* created before the group, `ok` and `rejected` are the members that
\* returned Ok and AlreadyConnected.  The group is forgotten when any
\* disconnect overlaps it, when a member fails, and one step after its last
\* member has returned.
RaceDone(r) == r.members # {} /\ r.members = r.ok \cup r.rejected

Expire(r) == IF RaceDone(r) THEN NoRace ELSE r

Issued(r, p, o) ==
    IF o \notin Lifecycle THEN r
    ELSE IF o = "connect" /\ inner.tag = "Builder"
            /\ Pending("connect") \cup Pending("disconnect") = {}
    THEN [members |-> {p}, base |-> nextExec, ok |-> {}, rejected |-> {}]
    ELSE IF o = "connect" /\ r.members # {} /\ p \notin r.members
    THEN [r EXCEPT !.members = @ \cup {p}]
    ELSE NoRace

Returned(r, p, o, result) ==
    IF r.members = {} \/ o # "connect" THEN r
    ELSE IF result = "Ok" THEN [r EXCEPT !.ok = @ \cup {p}]
    ELSE IF result = "AlreadyConnected" THEN [r EXCEPT !.rejected = @ \cup {p}]
    ELSE NoRace

\* The history as caller p's step finds it: p issues o in this step exactly
\* when p was idle.
RaceNow(p, o) ==
    IF pc[p] = "idle" THEN Issued(Expire(race), p, o) ELSE Expire(race)

\* A caller may issue a connect only while an executor id is left for it.
MayIssue(p, o) ==
    /\ pc[p] = "idle"
    /\ o = "connect" => nextExec + Cardinality(Pending("connect")) < MaxExecs

\* Operation o of caller p returns: result kind r, value v.
Return(p, o, r, v) ==
    /\ pc' = [pc EXCEPT ![p] = "idle"]
    /\ op' = [op EXCEPT ![p] = "none"]
    /\ ret' = [proc |-> p, op |-> o, res |-> r, val |-> v]
    /\ race' = Returned(RaceNow(p, o), p, o, r)

\* Operation o of caller p goes on to its next await, at position at.
Await(p, o, at) ==
    /\ pc' = [pc EXCEPT ![p] = at]
    /\ op' = [op EXCEPT ![p] = o]
    /\ ret' = NoRet
    /\ race' = RaceNow(p, o)

\* Mutant: a call that finds the lock free takes it although others wait.
AcquiredBarging(p, o) ==
    \/ /\ MayIssue(p, o)
       /\ Available(LockKind(o))
       /\ UNCHANGED waitq
    \/ /\ pc[p] = "wait"
       /\ op[p] = o
       /\ Head(waitq) = p
       /\ Available(LockKind(o))
       /\ waitq' = Tail(waitq)

\* Operation o of caller p gets its guard: at once when it is issued and
\* the lock is free and nobody waits, or later from the head of the queue.
Acquired(p, o) ==
    \/ /\ MayIssue(p, o)
       /\ waitq = <<>>
       /\ Available(LockKind(o))
       /\ UNCHANGED waitq
    \/ /\ pc[p] = "wait"
       /\ op[p] = o
       /\ Head(waitq) = p
       /\ Available(LockKind(o))
       /\ waitq' = Tail(waitq)

\* Operation o is issued while the lock is not free: the call waits.
Wait(p, o) ==
    /\ MayIssue(p, o)
    /\ ~(waitq = <<>> /\ Available(LockKind(o)))
    /\ Await(p, o, "wait")
    /\ waitq' = Append(waitq, p)
    /\ UNCHANGED <<schema, inner, writer, readers, executor, handler, live,
                   nextExec, installs>>

\* ------------------------------------------------------------- connect
\* Mutant: the data source declared last is taken.
LastDatasource(config) ==
    IF config.datasources = <<>> THEN "none"
    ELSE config.datasources[Len(config.datasources)]

\* The first declared data source (connect supports exactly one).
FirstDatasource(config) ==
    IF config.datasources = <<>> THEN "none" ELSE Head(config.datasources)

\* Mutant: the Connected value is installed with the query schema of an
\* empty data model, before the schema of the stored data model is built.
ConnectedEngineNoSchema(builder, exec) ==
    [tag |-> "Connected",
     datamodel |-> builder.datamodel,
     config |-> ConfigToMcfJson(builder.config),
     query_schema |-> BuildQuerySchema(<<"ast", "none">>, DbName(exec.url)),
     executor |-> exec]

\* The ConnectedEngine value connect installs.
ConnectedEngine(builder, exec) ==
    [tag |-> "Connected",
     datamodel |-> builder.datamodel,
     config |-> ConfigToMcfJson(builder.config),
     query_schema |-> BuildQuerySchema(builder.datamodel.ast, DbName(exec.url)),
     executor |-> exec]

\* Mutant: a connect on a Connected engine is a silent success.
ConnectSilentOk(p) ==
    /\ inner.tag = "Connected"
    /\ Return(p, "connect", "Ok", "none")
    /\ UNCHANGED <<inner, writer, executor, live, nextExec>>

\* connect, Inner::Connected arm: rejected, the guard is dropped at once.
ConnectRejected(p) ==
    /\ inner.tag = "Connected"
    /\ Return(p, "connect", "AlreadyConnected", "none")
    /\ UNCHANGED <<inner, writer, executor, live, nextExec>>

\* connect, Inner::Builder arm up to the first await (exec_loader::load):
\* the data source and its URL are resolved; a failure returns with `?`.
ConnectPrepare(p) ==
    /\ inner.tag = "Builder"
    /\ IF FirstDatasource(inner.config) = "none"
       THEN /\ Return(p, "connect", "Configuration", "none")
            /\ UNCHANGED <<inner, writer, executor, live, nextExec>>
       ELSE \/ /\ Return(p, "connect", "Conversion", inner.datamodel.raw)
               /\ UNCHANGED <<inner, writer, executor, live, nextExec>>
            \/ /\ Await(p, "connect", "loading")
               /\ writer' = p
               /\ UNCHANGED <<inner, executor, live, nextExec>>

\* connect obtains the write guard and matches on the state.
Connect(p) ==
    /\ Acquired(p, "connect")
    /\ (ConnectRejected(p) \/ ConnectPrepare(p))
    /\ UNCHANGED <<schema, readers, handler, installs>>

\* Mutant: the Connected value is installed as soon as the executor is
\* loaded, and connect returns without probing the connection.
ConnectLoadInstalls(p) ==
    /\ pc[p] = "loading"
    /\ nextExec' = nextExec + 1
    /\ live' = live \cup {nextExec + 1}
    /\ inner' = ConnectedEngine(inner, [id |-> nextExec + 1,
                                        url |-> FirstDatasource(inner.config)])
    /\ installs' = installs + 1
    /\ Return(p, "connect", "Ok", "none")
    /\ writer' = NoProc
    /\ UNCHANGED <<schema, readers, waitq, handler, executor>>

\* exec_loader::load returns: an error, or a new executor for the URL.
ConnectLoad(p) ==
    /\ pc[p] = "loading"
    /\ \/ /\ Return(p, "connect", "Core", "none")
          /\ writer' = NoProc
          /\ UNCHANGED <<executor, live, nextExec>>
       \/ /\ nextExec' = nextExec + 1
          /\ executor' = [executor EXCEPT ![p] =
                 [id |-> nextExec + 1, url |-> FirstDatasource(inner.config)]]
          /\ live' = live \cup {nextExec + 1}
          /\ Await(p, "connect", "probing")
          /\ UNCHANGED writer
    /\ UNCHANGED <<schema, inner, readers, waitq, handler, installs>>

\* Mutant: the Connected value is installed before the probe has answered,
\* so a failed probe leaves it behind.
ProbeFailedInstalled(p) ==
    /\ Return(p, "connect", "Connector", "none")
    /\ inner' = ConnectedEngine(inner, executor[p])
    /\ UNCHANGED <<live, installs>>

\* The probe failed: `?` returns, the local executor is dropped.
ProbeFailed(p) ==
    /\ Return(p, "connect", "Connector", "none")
    /\ live' = live \ {executor[p].id}
    /\ UNCHANGED <<inner, installs>>

\* Mutant: the Connected value is built and dropped, never assigned to the
\* state behind the lock.
ProbeSucceededNotInstalled(p) ==
    /\ Return(p, "connect", "Ok", "none")
    /\ live' = live \ {executor[p].id}
    /\ UNCHANGED <<inner, installs>>

\* The probe succeeded: the query schema is built and the Connected value
\* replaces the Builder value (which owns no executor).
ProbeSucceeded(p) ==
    /\ Return(p, "connect", "Ok", "none")
    /\ inner' = ConnectedEngine(inner, executor[p])
    /\ live' = live \ DropInner(inner)
    /\ installs' = installs + 1

\* connector.get_connection() returns; the guard is dropped on return.
ConnectProbe(p) ==
    /\ pc[p] = "probing"
    /\ (ProbeFailed(p) \/ ProbeSucceeded(p))
    /\ executor' = [executor EXCEPT ![p] = NoExec]
    /\ writer' = NoProc
    /\ UNCHANGED <<schema, readers, waitq, handler, nextExec>>

\* ---------------------------------------------------------- disconnect
\* Mutant: disconnect stores the rendered text as the raw schema text.
EngineBuilderRendered(engine) ==
    [tag |-> "Builder",
     datamodel |-> [engine.datamodel EXCEPT
                        !.raw = RenderDatamodelAndConfig(engine.datamodel.ast,
                                                         DatasourcesIn(engine.datamodel.raw))],
     config |-> ParseConfigurationWithUrlOverrides(
                    engine.datamodel.raw, engine.datamodel.datasource_overrides)]

\* The EngineBuilder value disconnect installs.
EngineBuilder(engine) ==
    [tag |-> "Builder",
     datamodel |-> engine.datamodel,
     config |-> ParseConfigurationWithUrlOverrides(
                    engine.datamodel.raw, engine.datamodel.datasource_overrides)]

\* Mutant: the Builder value is assigned before the configuration is
\* parsed, so a failing parse leaves it behind.
DisconnectConnectedTorn(p) ==
    /\ inner.tag = "Connected"
    /\ \/ /\ Return(p, "disconnect", "Conversion", inner.datamodel.raw)
          /\ inner' = EngineBuilder(inner)
          /\ live' = live \ DropInner(inner)
       \/ /\ Return(p, "disconnect", "Ok", "none")
          /\ inner' = EngineBuilder(inner)
          /\ live' = live \ DropInner(inner)

\* Mutant: disconnect returns Ok and never assigns the Builder value.
DisconnectConnectedKept(p) ==
    /\ inner.tag = "Connected"
    /\ \/ /\ Return(p, "disconnect", "Conversion", inner.datamodel.raw)
          /\ UNCHANGED <<inner, live>>
       \/ /\ Return(p, "disconnect", "Ok", "none")
          /\ UNCHANGED <<inner, live>>

\* disconnect, Inner::Connected arm: the configuration is parsed again; on
\* success the Builder value replaces the Connected one, which is dropped.
DisconnectConnected(p) ==
    /\ inner.tag = "Connected"
    /\ \/ /\ Return(p, "disconnect", "Conversion", inner.datamodel.raw)
          /\ UNCHANGED <<inner, live>>
       \/ /\ Return(p, "disconnect", "Ok", "none")
          /\ inner' = EngineBuilder(inner)
          /\ live' = live \ DropInner(inner)

\* Mutant: a disconnect on an Unconnected engine is a silent success.
DisconnectSilentOk(p) ==
    /\ inner.tag = "Builder"
    /\ Return(p, "disconnect", "Ok", "none")
    /\ UNCHANGED <<inner, live>>

\* disconnect, Inner::Builder arm.
DisconnectRejected(p) ==
    /\ inner.tag = "Builder"
    /\ Return(p, "disconnect", "NotConnected", "none")
    /\ UNCHANGED <<inner, live>>

\* disconnect has no await after the write guard: it is one step.
Disconnect(p) ==
    /\ Acquired(p, "disconnect")
    /\ (DisconnectConnected(p) \/ DisconnectRejected(p))
    /\ UNCHANGED <<schema, writer, readers, executor, handler, nextExec, installs>>

\* --------------------------------------------------------------- query
\* Mutant: the read guard is released before the handler is awaited.
QueryDelegateReleased(p) ==
    /\ inner.tag = "Connected"
    /\ handler' = [handler EXCEPT ![p] =
           [executor |-> inner.executor, query_schema |-> inner.query_schema]]
    /\ readers' = readers
    /\ Await(p, "query", "executing")

\* query, Inner::Connected arm: the handler borrows executor and schema
\* from the read view and the call awaits handler.handle(query).
QueryDelegate(p) ==
    /\ inner.tag = "Connected"
    /\ handler' = [handler EXCEPT ![p] =
           [executor |-> inner.executor, query_schema |-> inner.query_schema]]
    /\ readers' = readers \cup {p}
    /\ Await(p, "query", "executing")

\* Mutant: a query on an Unconnected engine answers with an empty response.
QueryEmptyResponse(p) ==
    /\ inner.tag = "Builder"
    /\ Return(p, "query", "Ok", <<"response", NoExec.id>>)
    /\ UNCHANGED <<handler, readers>>

\* query, Inner::Builder arm.
QueryRejected(p) ==
    /\ inner.tag = "Builder"
    /\ Return(p, "query", "NotConnected", "none")
    /\ UNCHANGED <<handler, readers>>

\* query obtains a read guard and matches on the state.
Query(p) ==
    /\ Acquired(p, "query")
    /\ (QueryDelegate(p) \/ QueryRejected(p))
    /\ UNCHANGED <<schema, inner, writer, executor, live, nextExec, installs>>

\* handler.handle(query) returns; the read guard is dropped.
QueryFinish(p) ==
    /\ pc[p] = "executing"
    /\ Return(p, "query", "Ok", <<"response", handler[p].executor.id>>)
    /\ handler' = [handler EXCEPT ![p] = NoHandler]
    /\ readers' = readers \ {p}
    /\ UNCHANGED <<schema, inner, writer, waitq, executor, live, nextExec, installs>>

\* ------------------------------------------------------------- readers
\* A reader with no await after the read guard: acquire, compute, release.
ReadOnly(p, o, result) ==
    /\ Acquired(p, o)
    /\ Return(p, o, result[1], result[2])
    /\ UNCHANGED <<schema, inner, writer, readers, executor, handler, live,
                   nextExec, installs>>

NotConnected == <<"NotConnected", "none">>

SdlSchema(p) ==
    ReadOnly(p, "sdl_schema",
             IF inner.tag = "Connected"
             THEN <<"Ok", <<"sdl", inner.query_schema>>>>
             ELSE NotConnected)

\* Mutant: dmmf renders the stored data model on an Unconnected engine.
DmmfFromBuilder(p) ==
    ReadOnly(p, "dmmf",
             IF inner.tag = "Connected"
             THEN <<"Ok", <<"dmmf", inner.datamodel.ast, inner.query_schema>>>>
             ELSE <<"Ok", <<"dmmf", inner.datamodel.ast, "none">>>>)

Dmmf(p) ==
    ReadOnly(p, "dmmf",
             IF inner.tag = "Connected"
             THEN <<"Ok", <<"dmmf", inner.datamodel.ast, inner.query_schema>>>>
             ELSE NotConnected)

\* Mutant: get_config is only available when connected, like sdl_schema.
GetConfigBuilderRejected(p) ==
    ReadOnly(p, "get_config",
             IF inner.tag = "Connected"
             THEN <<"Ok", inner.config>>
             ELSE NotConnected)

GetConfig(p) ==
    ReadOnly(p, "get_config",
             IF inner.tag = "Connected"
             THEN <<"Ok", inner.config>>
             ELSE <<"Ok", ConfigToMcfJson(inner.config)>>)

ServerInfo(p) ==
    ReadOnly(p, "server_info",
             IF inner.tag = "Connected"
             THEN <<"Ok", [primary_connector |-> ConnectorName(inner.executor.url)]>>
             ELSE <<"Ok", [primary_connector |-> "None"]>>)

\* ------------------------------------------------------- specification
Next ==
    /\ \E p \in Procs :
          \/ \E o \in Operations : Wait(p, o)
          \/ Connect(p)
          \/ ConnectLoad(p)
          \/ ConnectProbe(p)
          \/ Disconnect(p)
          \/ Query(p)
          \/ QueryFinish(p)
          \/ SdlSchema(p)
          \/ Dmmf(p)
          \/ GetConfig(p)
          \/ ServerInfo(p)
    /\ UNCHANGED connectorVars

Spec == Init /\ [][Next]_vars

\* ------------------------------------------- abandoned calls, fairness
\* The future of a call is dropped at the await it is suspended in: a
\* waiter leaves the queue, a connect drops its write guard (and the
\* executor it had loaded), a query drops its handler and its read guard.
\* Nothing is returned to the caller.
Abandon(p) ==
    /\ pc[p] # "idle"
    /\ pc' = [pc EXCEPT ![p] = "idle"]
    /\ op' = [op EXCEPT ![p] = "none"]
    /\ ret' = NoRet
    /\ race' = Returned(Expire(race), p, op[p], "Abandoned")
    /\ waitq' = SelectSeq(waitq, LAMBDA q : q # p)
    /\ writer' = IF writer = p THEN NoProc ELSE writer
    /\ readers' = readers \ {p}
    /\ live' = IF pc[p] = "probing" THEN live \ {executor[p].id} ELSE live
    /\ executor' = [executor EXCEPT ![p] = NoExec]
    /\ handler' = [handler EXCEPT ![p] = NoHandler]
    /\ UNCHANGED <<schema, inner, nextExec, installs, connectorVars>>

\* A waiting call is handed the lock.
Granted(p) ==
    /\ pc[p] = "wait"
    /\ \/ Connect(p)
       \/ Disconnect(p)
       \/ Query(p)
       \/ SdlSchema(p)
       \/ Dmmf(p)
       \/ GetConfig(p)
       \/ ServerInfo(p)
    /\ UNCHANGED connectorVars

\* The engine with calls that may be abandoned.
LiveNext == Next \/ \E p \in Procs : Abandon(p)

\* The lock wakes its waiters, and the driver answers: a load, a probe and
\* a query in flight each come to an end.
Fairness ==
    \A p \in Procs :
        /\ WF_vars(Granted(p))
        /\ WF_vars(ConnectLoad(p) /\ UNCHANGED connectorVars)
        /\ WF_vars(ConnectProbe(p) /\ UNCHANGED connectorVars)
        /\ WF_vars(QueryFinish(p) /\ UNCHANGED connectorVars)

LiveSpec == Init /\ [][LiveNext]_vars /\ Fairness

\* ===================================================================
\* Connector functions: error normalization (mongodb-query-connector,
\* error.rs) and describer loading (sql-introspection-connector,
\* schema_describer_loading.rs)
\* ===================================================================
\* ---------------------------------------------------------------- texts
\* A text is a sequence of tokens.  A token is a word, a punctuation mark
\* or one white-space character; no token contains a word of the pattern
\* below as a proper part, so that matching token by token agrees with
\* matching character by character.
IsWhitespace(t) == t \in {" ", "\n", "\t"}

\* What `.` of the regex matches: everything but a line feed.
IsAnyChar(t) == t # "\n"

DecimalDigits == <<"0", "1", "2", "3", "4", "5", "6", "7", "8", "9">>

RECURSIVE NatToString(_)
NatToString(n) ==
    IF n < 10 THEN <<DecimalDigits[n + 1]>>
    ELSE NatToString(n \div 10) \o <<DecimalDigits[(n % 10) + 1]>>

\* i32::to_string, usize::to_string: the decimal text, one token per digit.
IntToString(n) == IF n < 0 THEN <<"-">> \o NatToString(0 - n) ELSE NatToString(n)

Min(S) == CHOOSE x \in S : \A y \in S : x <= y
Max(S) == CHOOSE x \in S : \A y \in S : x >= y

\* --------------------------------------- parse_unique_index_violation
\* The regex duplicate\skey\serror\scollection:\s.*\sindex:\s(.*)\sdup\skey
\* in its three literal parts, which stand around the two `.*`; "\\s" is one
\* white-space character.
PatternHead == <<"duplicate", "\\s", "key", "\\s", "error", "\\s", "collection:", "\\s">>
PatternMiddle == <<"\\s", "index:", "\\s">>
PatternTail == <<"\\s", "dup", "\\s", "key">>

\* The literal part lit matches the text at position i.
LiteralAt(lit, text, i) ==
    /\ i >= 1
    /\ i + Len(lit) - 1 <= Len(text)
    /\ \A k \in 1..Len(lit) :
          IF lit[k] = "\\s" THEN IsWhitespace(text[i + k - 1])
          ELSE text[i + k - 1] = lit[k]

Occurrences(lit, text) == {i \in 1..Len(text) : LiteralAt(lit, text, i)}

\* `.*` matches the tokens from..to (none when to < from).
WildcardOver(text, from, to) == \A k \in from..to : IsAnyChar(text[k])

\* All the ways the regex matches somewhere in the text: <<i, j, k>> are the
\* positions of the head, the middle and the tail.
Matches(text) ==
    {m \in Occurrences(PatternHead, text) \X Occurrences(PatternMiddle, text)
            \X Occurrences(PatternTail, text) :
        /\ m[2] >= m[1] + Len(PatternHead)
        /\ WildcardOver(text, m[1] + Len(PatternHead), m[2] - 1)
        /\ m[3] >= m[2] + Len(PatternMiddle)
        /\ WildcardOver(text, m[2] + Len(PatternMiddle), m[3] - 1)}

\* re.captures: the match the regex engine reports is the leftmost one, and
\* in it each `.*` is greedy: the first takes all it can, then the second.
FirstMatch(text) ==
    LET i == Min({m[1] : m \in Matches(text)})
        j == Max({m[2] : m \in {n \in Matches(text) : n[1] = i}})
        k == Max({m[3] : m \in {n \in Matches(text) : n[1] = i /\ n[2] = j}})
    IN  <<i, j, k>>

None == [some |-> FALSE]
Some(v) == [some |-> TRUE, value |-> v]

\* parse_unique_index_violation: capture group 1 of the match, if any.
ParseUniqueIndexViolation(message) ==
    IF Matches(message) = {} THEN None
    ELSE LET m == FirstMatch(message)
         IN  Some(SubSeq(message, m[2] + Len(PatternMiddle), m[3] - 1))

CannotParse == [tag |-> "CannotParse"]
Index(name) == [tag |-> "Index", name |-> name]

RawError(code, message) == [kind |-> "RawError", code |-> code, message |-> message]

\* Mutant: a conflict whose message cannot be parsed is passed on raw.
UniqueViolationOrRaw(message) ==
    IF ParseUniqueIndexViolation(message).some
    THEN [kind |-> "UniqueConstraintViolation",
          constraint |-> Index(ParseUniqueIndexViolation(message).value)]
    ELSE RawError(IntToString(11000), message)

\* unique_violation_error
UniqueViolationError(message) ==
    [kind |-> "UniqueConstraintViolation",
     constraint |-> IF ParseUniqueIndexViolation(message).some
                    THEN Index(ParseUniqueIndexViolation(message).value)
                    ELSE CannotParse]

\* ------------------------------------------------ into_connector_error
\* A ConnectorError is written as its ErrorKind: ConnectorError::from_kind
\* adds nothing to it.
\* Display of the driver's error (external crate): kind and message.
DriverDisplay(err) ==
    <<"Kind:", " ", err.kind>> \o
        (IF "message" \in DOMAIN err THEN <<",", " ">> \o err.message ELSE <<>>)

\* Display of MongoError (the #[error] attributes).
MongoDisplay(err) ==
    CASE err.variant = "Unsupported" ->
             <<"Unsupported MongoDB feature: ">> \o err.feature \o <<".">>
      [] err.variant = "ConversionError" ->
             <<"Failed to convert '">> \o err.from \o <<"' to '">> \o err.to \o <<"'.">>
      [] err.variant = "MalformedObjectId" ->
             <<"Malformed ObjectID: ">> \o err.id \o <<".">>
      [] err.variant = "DriverError" -> DriverDisplay(err.driver)

\* Mutant: the message of a write failure is replaced by a rendering of it.
WriteFailureKindRendered(failure) ==
    IF failure.code = 11000 THEN UniqueViolationError(failure.message)
    ELSE RawError(IntToString(failure.code),
                  <<"Kind:", " ", failure.variant, ",", " ">> \o failure.message)

\* The WriteConcernError and WriteError arms of a single write failure:
\* the same match on the status code in both.
WriteFailureKind(failure) ==
    IF failure.code = 11000 THEN UniqueViolationError(failure.message)
    ELSE RawError(IntToString(failure.code), failure.message)

\* Mutant: the write index is left out of a per-item failure's message.
BulkWriteErrorItemNoIndex(item) ==
    IF item.code = 11000 THEN UniqueViolationError(item.message)
    ELSE RawError(IntToString(item.code),
                  <<"Bulk write error on write index '">> \o <<"': ">> \o item.message)

\* BulkWriteError, one per-item failure (the closure of the map).
BulkWriteErrorItem(item) ==
    IF item.code = 11000 THEN UniqueViolationError(item.message)
    ELSE RawError(IntToString(item.code),
                  <<"Bulk write error on write index '">> \o IntToString(item.index)
                      \o <<"': ">> \o item.message)

\* BulkWriteError, the batch-level write concern error.
BulkWriteConcernKind(concern) ==
    IF concern.code = 11000 THEN UniqueViolationError(concern.message)
    ELSE RawError(IntToString(concern.code),
                  <<"Bulk write concern error: ">> \o concern.message)

\* Mutant: the concern error is put in front of the per-item failures.
BulkWriteErrorConcernFirst(err) ==
    [kind |-> "MultiError",
     errors |->
        (IF err.write_concern_error.some
         THEN <<BulkWriteConcernKind(err.write_concern_error.value)>>
         ELSE <<>>)
        \o (IF err.write_errors.some
            THEN [i \in DOMAIN err.write_errors.value |->
                     BulkWriteErrorItem(err.write_errors.value[i])]
            ELSE <<>>)]

\* The BulkWriteError arm: the per-item failures in the driver's order,
\* then the concern error if there is one.
BulkWriteErrorKind(err) ==
    [kind |-> "MultiError",
     errors |->
        (IF err.write_errors.some
         THEN [i \in DOMAIN err.write_errors.value |->
                  BulkWriteErrorItem(err.write_errors.value[i])]
         ELSE <<>>)
        \o (IF err.write_concern_error.some
            THEN <<BulkWriteConcernKind(err.write_concern_error.value)>>
            ELSE <<>>)]

\* Mutant: the user is taken from the rendered error, not from its message.
AuthenticationErrorRendered(err) ==
    [kind |-> "AuthenticationFailed", user |-> DriverDisplay(err)]

\* The AuthenticationError arm.
AuthenticationErrorKind(err) ==
    [kind |-> "AuthenticationFailed", user |-> err.message]

\* Mutant: a driver error without an arm of its own is reported as a
\* query error.
UnhandledAsQueryError(err) == [kind |-> "QueryError", source |-> err]

\* The `_` arm of the match on the driver's error kind.
UnhandledDriverErrorKind(err) == RawError(<<"unknown">>, DriverDisplay(err))

\* The match on err.kind of MongoError::DriverError(err).
DriverErrorKind(err) ==
    CASE err.kind = "AddrParse" -> [kind |-> "ConnectionError", source |-> err]
      [] err.kind = "ArgumentError" -> [kind |-> "QueryError", source |-> err]
      [] err.kind = "AuthenticationError" -> AuthenticationErrorKind(err)
      [] err.kind = "WriteError" ->
             IF err.failure.variant \in {"WriteConcernError", "WriteError"}
             THEN WriteFailureKind(err.failure)
             ELSE [kind |-> "QueryError", source |-> err]
      [] err.kind = "BulkWriteError" -> BulkWriteErrorKind(err)
      [] err.kind = "BsonDecode" ->
             [kind |-> "InternalConversionError",
              message |-> <<"BSON decode error: ">> \o err.message]
      [] err.kind = "BsonEncode" ->
             [kind |-> "InternalConversionError",
              message |-> <<"BSON encode error: ">> \o err.message]
      [] err.kind = "DnsResolve" -> [kind |-> "ConnectionError", source |-> err]
      [] OTHER -> UnhandledDriverErrorKind(err)

\* MongoError::into_connector_error
IntoConnectorError(err) ==
    CASE err.variant = "Unsupported" ->
             [kind |-> "UnsupportedFeature", feature |-> err.feature]
      [] err.variant = "ConversionError" ->
             [kind |-> "ConversionError", source |-> MongoDisplay(err)]
      [] err.variant = "MalformedObjectId" ->
             [kind |-> "ConversionError", source |-> MongoDisplay(err)]
      [] err.variant = "DriverError" -> DriverErrorKind(err.driver)

\* ----------------------------------------------------- load_describer
\* A connection URL is the text <<scheme, separator, rest>>.
UrlScheme(url) == url[1]

\* Quaint (external crate): the SQL family of a URL scheme, "none" for a
\* scheme it does not know.
SqlFamilyOfScheme(scheme) ==
    CASE scheme \in {"postgres", "postgresql"} -> "Postgres"
      [] scheme = "mysql" -> "Mysql"
      [] scheme \in {"file", "sqlite"} -> "Sqlite"
      [] OTHER -> "none"

\* Quaint::new(&url): the connection wrapper with its ConnectionInfo, or
\* the error `?` returns.
QuaintNew(url) ==
    IF SqlFamilyOfScheme(UrlScheme(url)) = "none"
    THEN [ok |-> FALSE, error |-> "DatabaseUrlIsInvalid"]
    ELSE [ok |-> TRUE,
          connection_info |-> [sql_family |-> SqlFamilyOfScheme(UrlScheme(url)),
                               url |-> url]]

\* Mutant: the Sqlite arm constructs the describer of the arm above it.
DescriberCopied(family) ==
    CASE family = "Postgres" -> "postgres::SqlSchemaDescriber"
      [] family = "Mysql" -> "mysql::SqlSchemaDescriber"
      [] family = "Sqlite" -> "mysql::SqlSchemaDescriber"

\* The match on connection_info.sql_family(): one arm per SqlFamily, no
\* `_` arm.
Describer(family) ==
    CASE family = "Postgres" -> "postgres::SqlSchemaDescriber"
      [] family = "Mysql" -> "mysql::SqlSchemaDescriber"
      [] family = "Sqlite" -> "sqlite::SqlSchemaDescriber"

\* Mutant: a URL that does not parse falls through to a default backend.
LoadDescriberFallback(url) ==
    IF ~QuaintNew(url).ok
    THEN [ok |-> TRUE,
          describer |-> Describer("Postgres"),
          connection_info |-> [sql_family |-> "Postgres", url |-> url]]
    ELSE [ok |-> TRUE,
          describer |-> Describer(QuaintNew(url).connection_info.sql_family),
          connection_info |-> QuaintNew(url).connection_info]

\* Mutant: the connection info returned is not the one of the wrapper the
\* describer was built on.
LoadDescriberOtherInfo(url) ==
    IF ~QuaintNew(url).ok
    THEN [ok |-> FALSE, error |-> QuaintNew(url).error]
    ELSE [ok |-> TRUE,
          describer |-> Describer(QuaintNew(url).connection_info.sql_family),
          connection_info |-> [sql_family |-> "Postgres",
                               url |-> <<"postgresql", "://", "localhost/db">>]]

\* load_describer: the value returned for a URL.
LoadDescriberResult(url) ==
    IF ~QuaintNew(url).ok
    THEN [ok |-> FALSE, error |-> QuaintNew(url).error]
    ELSE [ok |-> TRUE,
          describer |-> Describer(QuaintNew(url).connection_info.sql_family),
          connection_info |-> QuaintNew(url).connection_info]

\* ------------------------------------- introspection and construction
\* A schema text, by what the datamodel crate reads in it: whether it
\* parses, its data-source blocks in declaration order, and its model and
\* enum blocks.
SchemaText(parses, datasources, models, enums) ==
    [parses |-> parses, datasources |-> datasources,
     models |-> models, enums |-> enums]

\* A data-source block whose url is written out, and one whose url is
\* env("DATABASE_URL").
LiteralUrl(url) == [from_env |-> FALSE, value |-> url]
EnvUrl(key) == [from_env |-> TRUE, value |-> key]

\* Datasource::load_url: the written URL, or the value of the environment
\* variable it names ("postgresql://env" where it is set); no value when
\* the variable is not set.
LoadUrl(ds, env_set) ==
    IF ~ds.from_env THEN Some(ds.value)
    ELSE IF env_set THEN Some("postgresql://env")
    ELSE None

\* Outcomes of a call: Ok(v), Err(e), or a panic that unwinds out of it.
ResultOk(v) == [status |-> "Ok", value |-> v]
ResultErr(kind, detail) == [status |-> "Err", kind |-> kind, detail |-> detail]
Panicked(message) == [status |-> "Panic", message |-> message]

\* Datamodel::is_empty, as used on the data model the connector returned.
IsEmpty(data_model) == data_model.models = <<>>

\* datamodel::render_datamodel_and_config_to_string, as a schema text: the
\* data sources of the configuration followed by the models and enums.
RenderToString(data_model, config) ==
    SchemaText(TRUE, config.datasources, data_model.models, data_model.enums)

\* datamodel::parse_configuration on a text that parses.
ParsedConfiguration(text) == [datasources |-> text.datasources]

\* Mutant: the data model the connector returned is rendered without the
\* test for emptiness.
IntrospectionIntrospectUnchecked(text, world) ==
    IF ~text.parses THEN ResultErr("DatamodelError", "diagnostics")
    ELSE IF text.datasources = <<>>
    THEN Panicked("unwrap on None")
    ELSE IF ~LoadUrl(Head(text.datasources), world.env_set).some
    THEN Panicked("unwrap on Err")
    ELSE IF ~world.connector_ok
    THEN ResultErr("ConnectorError", "connector")
    ELSE IF ~world.described.ok
    THEN ResultErr("ConnectorError", "introspect")
    ELSE ResultOk(RenderToString(world.described, ParsedConfiguration(text)))

\* Introspection::introspect(schema) against a database world.
IntrospectionIntrospect(text, world) ==
    IF ~text.parses THEN ResultErr("DatamodelError", "diagnostics")
    ELSE IF text.datasources = <<>>
    THEN Panicked("unwrap on None")
    ELSE IF ~LoadUrl(Head(text.datasources), world.env_set).some
    THEN Panicked("unwrap on Err")
    ELSE IF ~world.connector_ok
    THEN ResultErr("ConnectorError", "connector")
    ELSE IF ~world.described.ok
    THEN ResultErr("ConnectorError", "introspect")
    ELSE IF IsEmpty(world.described)
    THEN ResultErr("IntrospectionResultEmpty",
                   LoadUrl(Head(text.datasources), world.env_set).value)
    ELSE ResultOk(RenderToString(world.described, ParsedConfiguration(text)))

\* QueryEngine::introspect(schema) against a database world.
QueryEngineIntrospect(text, world) ==
    IF ~text.parses THEN ResultErr("DatamodelError", "diagnostics")
    ELSE IF text.datasources = <<>>
    THEN Panicked("unwrap on None")
    ELSE IF ~LoadUrl(Head(text.datasources), world.env_set).some
    THEN Panicked("unwrap on Err")
    ELSE IF ~world.connector_ok
    THEN Panicked("unable to connect")
    ELSE IF ~world.described.ok
    THEN ResultErr("ConnectorError", "introspect")
    ELSE IF IsEmpty(world.described)
    THEN ResultErr("IntrospectionResultEmpty",
                   LoadUrl(Head(text.datasources), world.env_set).value)
    ELSE ResultOk([datamodel |-> [models |-> world.described.models,
                                  enums |-> world.described.enums],
                   configuration |-> ParsedConfiguration(text)])

\* Mutant: the rendered text (the local named raw) is stored as the raw
\* schema text.
BuilderOfRendered(text, options) ==
    [tag |-> "Builder",
     datamodel |-> [ast |-> options.datamodel,
                    raw |-> RenderToString(options.datamodel, options.configuration),
                    datasource_overrides |-> <<>>],
     config |-> ParsedConfiguration(
                    RenderToString(options.datamodel, options.configuration))]

\* The QueryEngine value QueryEngine::new returns: Inner::Builder.
BuilderOf(text, options) ==
    [tag |-> "Builder",
     datamodel |-> [ast |-> options.datamodel,
                    raw |-> text,
                    datasource_overrides |-> <<>>],
     config |-> ParsedConfiguration(
                    RenderToString(options.datamodel, options.configuration))]

\* QueryEngine::new(schema): an error or a panic of the introspection is
\* that of the call; the rendered text of a parsed configuration parses again.
QueryEngineNew(text, world) ==
    IF QueryEngineIntrospect(text, world).status # "Ok"
    THEN QueryEngineIntrospect(text, world)
    ELSE ResultOk(BuilderOf(text, QueryEngineIntrospect(text, world).value))

\* The IntrospectionResult struct of lib.rs: three C strings, null or set.
IntrospectionResult(schema_ptr, sdl_ptr, error_ptr) ==
    [schema |-> schema_ptr, sdl |-> sdl_ptr, error |-> error_ptr]

\* sdl_schema on the engine prisma_introspect owns, in the state tag.
SdlSchemaOf(tag, engine) ==
    IF tag = "Connected" THEN ResultOk(<<"sdl", engine.datamodel.ast>>)
    ELSE ResultErr("NotConnected", "none")

\* prisma_introspect up to its return: the IntrospectionResult it builds,
\* and how it hands it over: moved into a Box (lines 95-96), as the address
\* of a temporary of its own frame (lines 48, 59, 70), or not at all
\* because a panic unwinds.  arg.world is the database at the
\* introspection, arg.second the database at the construction of the
\* engine, arg.connect the outcome of engine.connect().
PrismaIntrospect(arg) ==
    LET res == IntrospectionIntrospect(arg.schema, arg.world)
        engine == QueryEngineNew(res.value, arg.second)
        sdl == SdlSchemaOf("Connected", engine.value)
    IN  IF res.status = "Panic"
        THEN [how |-> "panic", message |-> res.message]
        ELSE IF res.status = "Err"
        THEN [how |-> "boxed",
              result |-> IntrospectionResult(None, None, Some(res.kind))]
        ELSE IF engine.status = "Panic"
        THEN [how |-> "panic", message |-> engine.message]
        ELSE IF engine.status = "Err"
        THEN [how |-> "temporary",
              result |-> IntrospectionResult(None, None, Some(engine.kind))]
        ELSE IF arg.connect # "Ok"
        THEN [how |-> "temporary",
              result |-> IntrospectionResult(None, None, Some("unable to connect engine"))]
        ELSE IF sdl.status # "Ok"
        THEN [how |-> "temporary",
              result |-> IntrospectionResult(None, None, Some("sdl_schema error"))]
        ELSE [how |-> "boxed",
              result |-> IntrospectionResult(Some(res.value), Some(sdl.value), None)]

\* What a read through a pointer to a dead temporary can give for one
\* C-string field: null, or some address.
DeadField == {None, Some("indeterminate")}

\* The IntrospectionResult values the caller can read through the pointer
\* prisma_introspect returned.
ReadableResults(arg) ==
    IF PrismaIntrospect(arg).how = "boxed"
    THEN {PrismaIntrospect(arg).result}
    ELSE {IntrospectionResult(a, b, c) : a \in DeadField, b \in DeadField, c \in DeadField}

\* ------------------------------------------------------------- inputs
\* Largest number of per-item failures in one batched write.
MaxBulk == 2

\* Status codes of the driver (i32).
Codes == {11000, 11001, 121, -1}

Collections == {<<"db.users">>, <<"shop.orders">>}

IndexNames == {<<"email_1">>, <<"by", "_", "name">>}

\* What the driver writes after "dup key": the offending key, user data.
KeyTexts ==
    {<<>>,
     <<":", " ", "{", " ", "email:", " ", "\"", "a@b.com", "\"", " ", "}">>,
     <<":", " ", "{", " ", "note:", " ", "\"", "my", " ", "dup", " ", "key", "\"", " ", "}">>,
     <<":", " ", "{", " ", "note:", " ", "\"", "old", " ", "index:", " ", "x", " ",
       "dup", " ", "key", "\"", " ", "}">>}

Leads == {<<>>, <<"E11000", " ">>}

\* A message of the documented shape.
Shaped(lead, collection, index, key) ==
    lead \o <<"duplicate", " ", "key", " ", "error", " ", "collection:", " ">>
         \o collection \o <<" ", "index:", " ">> \o index
         \o <<" ", "dup", " ", "key">> \o key

ShapedMessages ==
    {Shaped(l, c, i, k) : l \in Leads, c \in Collections, i \in IndexNames,
                          k \in KeyTexts}

\* Messages of other shapes: empty, unrelated, the shape of old servers
\* (no collection), cut short, and localized.
OtherMessages ==
    {<<>>,
     <<"write", " ", "conflict">>,
     <<"E11000", " ", "duplicate", " ", "key", " ", "error", " ", "index:", " ",
       "db.users.$email_1", " ", "dup", " ", "key:", " ", "{", "}">>,
     <<"duplicate", " ", "key", " ", "error", " ", "collection:", " ", "db.users",
       " ", "index:", " ", "email_1">>,
     <<"clave", " ", "duplicada">>}

Messages == ShapedMessages \cup OtherMessages

\* The messages of the sub-failures of a batched write.
BulkMessages ==
    {Shaped(<<>>, <<"db.users">>, <<"email_1">>, <<>>), <<"write", " ", "conflict">>}

BulkCodes == {11000, 121}

\* Positions in the batch of the writes that failed.
BulkIndexes == {0, 12}

BulkItems == [index : BulkIndexes, code : BulkCodes, message : BulkMessages]

BulkConcerns == [code : BulkCodes, message : BulkMessages]

SeqsUpTo(S, n) == UNION {[1..k -> S] : k \in 0..n}

DriverMessages == {<<"connection", " ", "refused">>, <<"user", " ", "alice">>}

\* The kinds of the driver's error that into_connector_error names in an
\* arm and that carry a message only.
MappedKinds == {"AddrParse", "ArgumentError", "AuthenticationError",
                "BsonDecode", "BsonEncode", "DnsResolve"}

\* The kinds it lists as unhandled.
UnhandledKinds == {"InvalidDnsName", "NoDnsResults", "SrvLookupError",
                   "ServerSelectionError", "InvalidHostname",
                   "ConnectionPoolClearedError", "CommandError", "InternalError",
                   "Io", "OperationError", "ParseError", "ResponseError",
                   "TokioTimeoutElapsed", "RustlsConfig", "TxtLookupError",
                   "WaitQueueTimeoutError"}

WriteFailures ==
    [variant : {"WriteConcernError", "WriteError"}, code : Codes, message : Messages]
        \cup [variant : {"Unlisted"}, code : {11000}, message : {<<>>}]

DriverErrors ==
    [kind : MappedKinds \cup UnhandledKinds, message : DriverMessages]
        \cup [kind : {"WriteError"}, failure : WriteFailures]
        \cup [kind : {"BulkWriteError"},
              write_errors : {None} \cup {Some(s) : s \in SeqsUpTo(BulkItems, MaxBulk)},
              write_concern_error : {None} \cup {Some(c) : c \in BulkConcerns}]

MongoErrors ==
    [variant : {"Unsupported"}, feature : {<<"transactions">>}]
        \cup [variant : {"ConversionError"}, from : {<<"String">>}, to : {<<"ObjectId">>}]
        \cup [variant : {"MalformedObjectId"}, id : {<<"xyz">>}]
        \cup [variant : {"DriverError"}, driver : DriverErrors]

\* The schemes the URL grammar names, and two it does not.
SupportedSchemes == {"postgres", "postgresql", "mysql", "sqlite", "file",
                     "mongodb", "mongodb+srv"}

Schemes == SupportedSchemes \cup {"http", "redis"}

Urls == {<<s, "://", r>> : s \in Schemes, r \in {"localhost/app", "db.internal/shop"}}

\* Schema texts handed to introspection and to QueryEngine::new: one that
\* does not parse, one without a data source, one and two data sources,
\* and one whose url is read from the environment.
IntrospectionTexts ==
    {SchemaText(FALSE, <<>>, <<>>, <<>>),
     SchemaText(TRUE, <<>>, <<>>, <<>>),
     SchemaText(TRUE, <<LiteralUrl("postgresql://one")>>, <<>>, <<>>),
     SchemaText(TRUE, <<LiteralUrl("mysql://two"), LiteralUrl("postgresql://spare")>>,
                <<>>, <<>>),
     SchemaText(TRUE, <<EnvUrl("DATABASE_URL")>>, <<>>, <<>>)}

\* What connector.introspect returns: an error, or a data model.
Descriptions ==
    {[ok |-> FALSE, models |-> <<>>, enums |-> <<>>]}
        \cup [ok : {TRUE}, models : {<<>>, <<"User">>}, enums : {<<>>, <<"Role">>}]

\* The database and the environment a call runs against.
Worlds == [env_set : BOOLEAN, connector_ok : BOOLEAN, described : Descriptions]

\* The database at the second contact of prisma_introspect.
SecondWorlds ==
    {w \in Worlds : w.env_set /\ (w.described.enums = <<>> \/ ~w.connector_ok)}

ConnectOutcomes == {"Ok", "Core", "Connector"}

ConnectorInputs ==
    [fn : {"into_connector_error"}, arg : MongoErrors]
        \cup [fn : {"unique_violation_error"}, arg : Messages]
        \cup [fn : {"load_describer"}, arg : Urls]
        \cup [fn : {"Introspection::introspect", "QueryEngine::new"},
              arg : [schema : IntrospectionTexts, world : Worlds]]
        \cup [fn : {"prisma_introspect"},
              arg : [schema : IntrospectionTexts, world : Worlds,
                     second : SecondWorlds, connect : ConnectOutcomes]]

\* ------------------------------------------------------------ actions
Answer(v) == [returned |-> TRUE, value |-> v]

IntoConnectorErrorCall ==
    /\ input.fn = "into_connector_error"
    /\ output = NoOutput
    /\ output' = Answer(IntoConnectorError(input.arg))
    /\ UNCHANGED <<input, constructed>>

UniqueViolationErrorCall ==
    /\ input.fn = "unique_violation_error"
    /\ output = NoOutput
    /\ output' = Answer(UniqueViolationError(input.arg))
    /\ UNCHANGED <<input, constructed>>

\* load_describer: a describer is constructed in the arm that is taken.
LoadDescriberCall ==
    /\ input.fn = "load_describer"
    /\ output = NoOutput
    /\ output' = Answer(LoadDescriberResult(input.arg))
    /\ constructed' = IF LoadDescriberResult(input.arg).ok
                      THEN constructed \cup {LoadDescriberResult(input.arg).describer}
                      ELSE constructed
    /\ UNCHANGED input

\* A panic unwinds out of the call: nothing is returned.
Aborted(message) == [returned |-> FALSE, panicked |-> TRUE, message |-> message]

\* The outcome of a call as the caller sees it.
Outcome(res) ==
    IF res.status = "Panic" THEN Aborted(res.message) ELSE Answer(res)

IntrospectionIntrospectCall ==
    /\ input.fn = "Introspection::introspect"
    /\ output = NoOutput
    /\ output' = Outcome(IntrospectionIntrospect(input.arg.schema, input.arg.world))
    /\ UNCHANGED <<input, constructed>>

QueryEngineNewCall ==
    /\ input.fn = "QueryEngine::new"
    /\ output = NoOutput
    /\ output' = Outcome(QueryEngineNew(input.arg.schema, input.arg.world))
    /\ UNCHANGED <<input, constructed>>

\* prisma_introspect, and the caller reading the three fields through the
\* pointer it got.
PrismaIntrospectCall ==
    /\ input.fn = "prisma_introspect"
    /\ output = NoOutput
    /\ \/ /\ PrismaIntrospect(input.arg).how = "panic"
          /\ output' = Aborted(PrismaIntrospect(input.arg).message)
       \/ /\ PrismaIntrospect(input.arg).how # "panic"
          /\ \E read \in ReadableResults(input.arg) : output' = Answer(read)
    /\ UNCHANGED <<input, constructed>>

engineVars == <<schema, inner, writer, readers, waitq, pc, op, ret,
                executor, handler, live, nextExec, installs, race>>

\* A connector function is called with one input on the side of an engine
\* that is left alone.
ConnectorInit ==
    /\ schema = "schema_one"
    /\ inner = NewBuilder(schema)
    /\ writer = NoProc
    /\ readers = {}
    /\ waitq = <<>>
    /\ pc = [p \in Procs |-> "idle"]
    /\ op = [p \in Procs |-> "none"]
    /\ ret = NoRet
    /\ executor = [p \in Procs |-> NoExec]
    /\ handler = [p \in Procs |-> NoHandler]
    /\ live = {}
    /\ nextExec = 0
    /\ installs = 0
    /\ race = NoRace
    /\ input \in ConnectorInputs
    /\ output = NoOutput
    /\ constructed = {}

ConnectorNext ==
    /\ \/ IntoConnectorErrorCall
       \/ UniqueViolationErrorCall
       \/ LoadDescriberCall
       \/ IntrospectionIntrospectCall
       \/ QueryEngineNewCall
       \/ PrismaIntrospectCall
    /\ UNCHANGED engineVars

ConnectorSpec == ConnectorInit /\ [][ConnectorNext]_vars

\* ===================================================================
\* Properties
\* ===================================================================
\* Step predicates: what caller p's step did, read from the state pair.
ConnectEnters(p) ==
    \/ pc[p] = "wait" /\ op[p] = "connect" /\ pc'[p] # "wait"
    \/ pc[p] = "idle" /\ (pc'[p] = "loading" \/ (ret'.proc = p /\ ret'.op = "connect"))

DisconnectRuns(p) == ret'.proc = p /\ ret'.op = "disconnect"

QueryEnters(p) ==
    \/ pc[p] = "wait" /\ op[p] = "query" /\ pc'[p] # "wait"
    \/ pc[p] = "idle" /\ (pc'[p] = "executing" \/ (ret'.proc = p /\ ret'.op = "query"))

\* Caller p's step took a read guard.
ReadEnters(p) ==
    \/ QueryEnters(p)
    \/ ret'.proc = p /\ ret'.op \in {"sdl_schema", "dmmf", "get_config", "server_info"}

ReaderOps == {"query", "sdl_schema", "dmmf", "get_config", "server_info"}

\* The executors the state owns.
OwnedByState == IF inner.tag = "Connected" THEN {inner.executor.id} ELSE {}

\* C1: a connect that gets the write guard of a Connected engine returns
\* AlreadyConnected in that same step and changes nothing: the Connected
\* value (executor, query schema, configuration, schema document) is the
\* same, no executor is created and the call never reaches the load or the
\* probe.
C1_ConnectOnConnectedRejected ==
    [][\A p \in Procs :
          (ConnectEnters(p) /\ inner.tag = "Connected") =>
              /\ ret' = [proc |-> p, op |-> "connect",
                         res |-> "AlreadyConnected", val |-> "none"]
              /\ pc'[p] = "idle"
              /\ inner' = inner
              /\ live' = live
              /\ nextExec' = nextExec
              /\ executor' = executor
              /\ writer' = NoProc]_vars

C1_Witness ==
    /\ ret.op = "connect"
    /\ ret.res = "AlreadyConnected"
    /\ inner.tag = "Connected"

\* C2: a disconnect that gets the write guard of an Unconnected engine
\* returns NotConnected and leaves the Builder value (schema document and
\* configuration) as it was.
C2_DisconnectOnBuilderRejected ==
    [][\A p \in Procs :
          (DisconnectRuns(p) /\ inner.tag = "Builder") =>
              /\ ret'.res = "NotConnected"
              /\ inner' = inner
              /\ inner'.tag = "Builder"
              /\ live' = live
              /\ writer' = writer]_vars

C2_Witness ==
    /\ ret.op = "disconnect"
    /\ ret.res = "NotConnected"
    /\ inner.tag = "Builder"

\* C3: a query that gets its read view of an Unconnected engine returns
\* NotConnected in that step, builds no handler (nothing is delegated to an
\* executor), holds no read guard afterwards and leaves the state as it was.
C3_QueryOnBuilderRejected ==
    [][\A p \in Procs :
          (QueryEnters(p) /\ inner.tag = "Builder") =>
              /\ ret' = [proc |-> p, op |-> "query",
                         res |-> "NotConnected", val |-> "none"]
              /\ pc'[p] = "idle"
              /\ handler' = handler
              /\ readers' = readers
              /\ inner' = inner
              /\ live' = live]_vars

C3_Witness ==
    /\ ret.op = "query"
    /\ ret.res = "NotConnected"
    /\ inner.tag = "Builder"

\* C4: whenever a query is being executed, the engine is Connected, the
\* executor the handler borrowed is the one the state owns and it is alive,
\* and the query holds a read guard while no write guard is held.
C4_QueryOnlyWhileConnected ==
    \A p \in Procs :
        pc[p] = "executing" =>
            /\ inner.tag = "Connected"
            /\ handler[p].executor = inner.executor
            /\ handler[p].query_schema = inner.query_schema
            /\ handler[p].executor.id \in live
            /\ p \in readers
            /\ writer = NoProc

\* A query in flight while a disconnect is waiting for the lock.
C4_Witness ==
    \E p, q \in Procs :
        /\ pc[p] = "executing"
        /\ pc[q] = "wait"
        /\ op[q] = "disconnect"

\* C5: the state is always a complete Builder value or a complete Connected
\* value (executor alive, query schema built for that executor, configuration
\* rendered); a reader that holds a read view sees the Connected value that
\* is installed now, a reader that just returned saw the state as it is now,
\* and no reader holds or takes a view while a connect has loaded its
\* executor and not yet installed the Connected value.
C5_CompleteStates ==
    /\ inner.tag \in {"Builder", "Connected"}
    /\ inner.tag = "Builder" =>
          /\ DOMAIN inner = {"tag", "datamodel", "config"}
          /\ DOMAIN inner.config = {"datasources", "parsed_from"}
    /\ inner.tag = "Connected" =>
          /\ DOMAIN inner = {"tag", "datamodel", "config", "query_schema", "executor"}
          /\ inner.executor.id \in live
          /\ inner.query_schema =
                 BuildQuerySchema(inner.datamodel.ast, DbName(inner.executor.url))
          /\ inner.config = <<"mcf", DatasourcesOf(inner.datamodel.raw)>>
    /\ \A p \in readers :
          /\ inner.tag = "Connected"
          /\ handler[p] = [executor |-> inner.executor,
                           query_schema |-> inner.query_schema]
    /\ \A p \in Procs :
          pc[p] \in {"loading", "probing"} =>
              /\ inner.tag = "Builder"
              /\ readers = {}
              /\ ret.op \notin ReaderOps
    /\ (ret.op = "sdl_schema" /\ ret.res = "Ok") =>
          (inner.tag = "Connected" /\ ret.val = <<"sdl", inner.query_schema>>)
    /\ (ret.op = "server_info" /\ ret.val.primary_connector # "None") =>
          /\ inner.tag = "Connected"
          /\ ret.val.primary_connector = ConnectorName(inner.executor.url)

\* A reader returned from a Connected engine while a connect waits.
C5_Witness ==
    /\ ret.op = "sdl_schema"
    /\ ret.res = "Ok"
    /\ \E q \in Procs : pc[q] = "wait" /\ op[q] = "connect"

\* C6: when two connect calls overlap on an Unconnected engine, no other
\* connect or disconnect overlaps them and neither fails in the driver, then
\* once both have returned exactly one has returned Ok and the other
\* AlreadyConnected, exactly one executor was created, it is the one
\* installed and the only one alive, and the state is Connected.
C6_ConcurrentConnects ==
    (Cardinality(race.members) = 2 /\ RaceDone(race)) =>
        /\ Cardinality(race.ok) = 1
        /\ Cardinality(race.rejected) = 1
        /\ race.ok \cap race.rejected = {}
        /\ ret.op = "connect"
        /\ ret.res = "AlreadyConnected"
        /\ ret.proc \in race.rejected
        /\ inner.tag = "Connected"
        /\ nextExec = race.base + 1
        /\ inner.executor.id = nextExec
        /\ live = {nextExec}
        /\ installs >= 1

C6_Witness ==
    /\ Cardinality(race.members) = 2
    /\ RaceDone(race)
    /\ race.base = 0

\* C7: the lock is held either by no writer and any number of readers, or by
\* exactly one writer and no reader; the writer is the one connect between
\* its guard and its return, the readers are the queries being executed;
\* a connect or disconnect gets its guard only in a step that starts with
\* no reader and no writer holding the lock, and a reader gets its guard
\* only in a step that starts with no writer holding it.
C7_ReadersWriterLock ==
    /\ [](/\ writer \in Procs \cup {NoProc}
          /\ readers \subseteq Procs
          /\ (writer = NoProc \/ readers = {})
          /\ \A p \in Procs :
                /\ (pc[p] \in {"loading", "probing"}) <=> (writer = p)
                /\ (pc[p] = "executing") <=> (p \in readers))
    /\ [][\A p \in Procs :
            /\ (ConnectEnters(p) \/ DisconnectRuns(p)) =>
                   (readers = {} /\ writer = NoProc)
            /\ ReadEnters(p) => writer = NoProc]_vars

\* Two queries hold read guards together.
C7_Witness ==
    /\ Cardinality(readers) >= 2
    /\ writer = NoProc

ConnectFailures == {"Configuration", "Conversion", "Core", "Connector"}

\* C8: a connect that returns an error of one of its steps leaves the same
\* Builder value behind, with the lock released, no executor alive and none
\* in the call's hands; the data source of the configuration is still there,
\* so the next connect starts from the state the failed one started from.
C8_FailedConnectKeepsBuilder ==
    [][\A p \in Procs :
          (ret'.proc = p /\ ret'.op = "connect" /\ ret'.res \in ConnectFailures) =>
              /\ inner.tag = "Builder"
              /\ inner' = inner
              /\ writer' = NoProc
              /\ readers' = {}
              /\ live' = {}
              /\ executor'[p] = NoExec
              /\ installs' = installs
              /\ FirstDatasource(inner'.config) # "none"]_vars

\* A connect succeeds although an earlier one failed in the probe: two
\* executors were created before the first Connected value was installed.
C8_Witness ==
    /\ ret.op = "connect"
    /\ ret.res = "Ok"
    /\ installs = 1
    /\ nextExec >= 2

\* C9: the stored schema document (raw text, data model, data-source
\* overrides) is always the one the engine was constructed with, in
\* particular after a disconnect followed by a connect.
C9_SchemaDocumentKept ==
    /\ inner.datamodel = NewDatamodel(schema)
    /\ inner.datamodel.raw = schema
    /\ inner.datamodel.datasource_overrides = <<>>

\* Connected for the second time: a disconnect and a connect lie behind.
C9_Witness ==
    /\ inner.tag = "Connected"
    /\ installs >= 2

C11_ConnectedOnlyAfterProbe ==
    /\ [](\A p \in Procs :
            /\ pc[p] = "loading" =>
                   (inner.tag = "Builder" /\ executor[p] = NoExec /\ writer = p)
            /\ pc[p] = "probing" =>
                   /\ inner.tag = "Builder"
                   /\ writer = p
                   /\ executor[p].id \in live
                   /\ executor[p].url = FirstDatasource(inner.config))
    /\ [][/\ (inner'.tag = "Connected" /\ inner' # inner) =>
               /\ inner.tag = "Builder"
               /\ \E p \in Procs :
                     /\ pc[p] = "probing"
                     /\ writer = p
                     /\ ret' = [proc |-> p, op |-> "connect",
                                res |-> "Ok", val |-> "none"]
                     /\ pc'[p] = "idle"
                     /\ inner'.executor = executor[p]
                     /\ inner'.query_schema =
                            BuildQuerySchema(inner.datamodel.ast,
                                             DbName(executor[p].url))
                     /\ writer' = NoProc
           /\ \A p \in Procs :
                 (pc'[p] = "probing" /\ pc[p] # "probing") =>
                     /\ pc[p] = "loading"
                     /\ nextExec' = nextExec + 1
                     /\ executor'[p].id = nextExec'
                     /\ inner' = inner]_vars

\* The Connected value was just installed by a connect whose executor is the
\* newest one created.
C11_Witness ==
    /\ ret.op = "connect"
    /\ ret.res = "Ok"
    /\ inner.tag = "Connected"
    /\ inner.executor.id = nextExec
    /\ inner.executor.id \in live

\* C12: get_config and server_info return Ok in both states and change
\* nothing: Unconnected, get_config returns the rendering of the builder's
\* configuration and server_info reports no primary connector; Connected,
\* get_config returns the stored configuration value and server_info the
\* name of the executor's primary connector.
C12_ConfigAndInfoAlwaysReadable ==
    [][\A p \in Procs :
          /\ (ret'.proc = p /\ ret'.op = "get_config") =>
                /\ ret'.res = "Ok"
                /\ inner.tag = "Builder" =>
                       ret'.val = <<"mcf", inner.config.datasources>>
                /\ inner.tag = "Connected" => ret'.val = inner.config
                /\ inner' = inner
                /\ live' = live
                /\ writer' = writer
                /\ readers' = readers
          /\ (ret'.proc = p /\ ret'.op = "server_info") =>
                /\ ret'.res = "Ok"
                /\ inner.tag = "Builder" =>
                       ret'.val.primary_connector = "None"
                /\ inner.tag = "Connected" =>
                       ret'.val.primary_connector = ConnectorName(inner.executor.url)
                /\ inner' = inner
                /\ live' = live
                /\ writer' = writer
                /\ readers' = readers]_vars

\* get_config answers on an engine that is Unconnected again after a
\* connect and a disconnect.
C12_Witness ==
    /\ ret.op = "get_config"
    /\ ret.res = "Ok"
    /\ inner.tag = "Builder"
    /\ installs >= 1

\* Which call the connector specification is looking at.
Normalized == input.fn = "into_connector_error" /\ output.returned

NormalizedDriverError == Normalized /\ input.arg.variant = "DriverError"

\* A single write failed: a write error or a write concern error.
SingleWriteFailure ==
    /\ NormalizedDriverError
    /\ input.arg.driver.kind = "WriteError"
    /\ input.arg.driver.failure.variant \in {"WriteConcernError", "WriteError"}

BulkWriteFailure ==
    /\ NormalizedDriverError
    /\ input.arg.driver.kind = "BulkWriteError"

\* The per-item failures and the concern errors (none or one) of a batch.
ItemsOf(err) == IF err.write_errors.some THEN err.write_errors.value ELSE <<>>
ConcernsOf(err) ==
    IF err.write_concern_error.some THEN <<err.write_concern_error.value>> ELSE <<>>

\* The number a decimal text denotes.
DigitValue(t) == CHOOSE d \in 0..9 : DecimalDigits[d + 1] = t

RECURSIVE NatValue(_)
NatValue(text) ==
    IF text = <<>> THEN 0
    ELSE 10 * NatValue(SubSeq(text, 1, Len(text) - 1)) + DigitValue(text[Len(text)])

IsDecimalText(text) ==
    LET digits == IF text # <<>> /\ Head(text) = "-" THEN Tail(text) ELSE text
    IN  /\ digits # <<>>
        /\ \A k \in DOMAIN digits : \E d \in 0..9 : DecimalDigits[d + 1] = digits[k]
        /\ Len(digits) > 1 => Head(digits) # "0"

DecimalValue(text) ==
    IF Head(text) = "-" THEN 0 - NatValue(Tail(text)) ELSE NatValue(text)

IsSuffix(t, text) ==
    Len(t) <= Len(text) /\ SubSeq(text, Len(text) - Len(t) + 1, Len(text)) = t

\* C13: a single write failure with status code 11000 normalizes to
\* UniqueConstraintViolation whatever its message is; the constraint is an
\* index name or the CannotParse marker, and it is the marker for every
\* message of another shape.
C13_DuplicateKeyIsUniqueViolation ==
    (SingleWriteFailure /\ input.arg.driver.failure.code = 11000) =>
        /\ output.value.kind = "UniqueConstraintViolation"
        /\ DOMAIN output.value = {"kind", "constraint"}
        /\ output.value.constraint.tag \in {"Index", "CannotParse"}
        /\ input.arg.driver.failure.message \in OtherMessages =>
               output.value.constraint = CannotParse

\* A write concern error with code 11000 and a localized message.
C13_Witness ==
    /\ SingleWriteFailure
    /\ input.arg.driver.failure.variant = "WriteConcernError"
    /\ input.arg.driver.failure.code = 11000
    /\ input.arg.driver.failure.message = <<"clave", " ", "duplicada">>
    /\ output.value.constraint = CannotParse

\* C14: for a message of the documented shape the extracted constraint is
\* Index of the index name the message was written with, and for a message
\* the pattern does not match it is CannotParse.
C14_IndexNameExtracted ==
    (input.fn = "unique_violation_error" /\ output.returned) =>
        /\ \A l \in Leads, c \in Collections, i \in IndexNames, k \in KeyTexts :
              input.arg = Shaped(l, c, i, k) => output.value.constraint = Index(i)
        /\ Matches(input.arg) = {} => output.value.constraint = CannotParse

\* C15: a single write failure with a status code other than 11000
\* normalizes to RawError; its code is the decimal text of the status code
\* and its message is the driver's message.
C15_OtherCodesAreRawErrors ==
    (SingleWriteFailure /\ input.arg.driver.failure.code # 11000) =>
        /\ output.value.kind = "RawError"
        /\ IsDecimalText(output.value.code)
        /\ DecimalValue(output.value.code) = input.arg.driver.failure.code
        /\ output.value.message = input.arg.driver.failure.message

\* A write error with a negative status code.
C15_Witness ==
    /\ SingleWriteFailure
    /\ input.arg.driver.failure.variant = "WriteError"
    /\ input.arg.driver.failure.code < 0
    /\ output.value.code = <<"-", "1">>

\* An entry of a MultiError goes back to a sub-failure with this status
\* code and this message.
ComesFrom(entry, failure) ==
    IF failure.code = 11000 THEN entry.kind = "UniqueConstraintViolation"
    ELSE /\ entry.kind = "RawError"
         /\ DecimalValue(entry.code) = failure.code
         /\ IsSuffix(failure.message, entry.message)

\* C16: a batched write error with N per-item failures normalizes to one
\* MultiError of N entries, or N + 1 when a concern error is reported; entry
\* i goes back to the i-th per-item failure and the last entry to the
\* concern error.
C16_BulkWriteIsOrderedMultiError ==
    BulkWriteFailure =>
        LET items == ItemsOf(input.arg.driver)
            concerns == ConcernsOf(input.arg.driver)
            errors == output.value.errors
        IN  /\ output.value.kind = "MultiError"
            /\ Len(errors) = Len(items) + Len(concerns)
            /\ \A i \in DOMAIN items : ComesFrom(errors[i], items[i])
            /\ concerns # <<>> => ComesFrom(errors[Len(errors)], concerns[1])

\* Two unlike per-item failures and a concern error gave three entries.
C16_Witness ==
    /\ BulkWriteFailure
    /\ Len(ItemsOf(input.arg.driver)) = 2
    /\ ItemsOf(input.arg.driver)[1].code # ItemsOf(input.arg.driver)[2].code
    /\ ConcernsOf(input.arg.driver) # <<>>
    /\ Len(output.value.errors) = 3

\* C17 as stated: every entry of the MultiError equals the ErrorKind the
\* single-write rule yields for the sub-failure's status code and message.
C17_SubFailuresAsSingleWrites ==
    BulkWriteFailure =>
        LET items == ItemsOf(input.arg.driver)
            concerns == ConcernsOf(input.arg.driver)
            errors == output.value.errors
        IN  /\ \A i \in DOMAIN items : errors[i] = WriteFailureKind(items[i])
            /\ concerns # <<>> => errors[Len(errors)] = WriteFailureKind(concerns[1])

\* C17 amended: every entry has the kind and the code the single-write rule
\* yields; for 11000 it equals that ErrorKind, and otherwise its message is
\* the single-write message behind the text that says where in the batch
\* the failure was: the write index for a per-item failure, the words
\* "Bulk write concern error" for the concern error.
C17_SubFailuresClassifiedAlike ==
    BulkWriteFailure =>
        LET items == ItemsOf(input.arg.driver)
            concerns == ConcernsOf(input.arg.driver)
            errors == output.value.errors
            Alike(entry, failure, context) ==
                LET single == WriteFailureKind(failure)
                IN  /\ entry.kind = single.kind
                    /\ failure.code = 11000 => entry = single
                    /\ failure.code # 11000 =>
                          /\ entry.code = single.code
                          /\ entry.message = context \o single.message
        IN  /\ \A i \in DOMAIN items :
                  Alike(errors[i], items[i],
                        <<"Bulk write error on write index '">>
                            \o IntToString(items[i].index) \o <<"': ">>)
            /\ concerns # <<>> =>
                  Alike(errors[Len(errors)], concerns[1],
                        <<"Bulk write concern error: ">>)

\* A batch with a per-item failure and a concern error of other codes than
\* 11000, and a per-item failure with 11000.
C17_Witness ==
    /\ BulkWriteFailure
    /\ \E i \in DOMAIN ItemsOf(input.arg.driver) :
          ItemsOf(input.arg.driver)[i].code # 11000
    /\ \E i \in DOMAIN ItemsOf(input.arg.driver) :
          ItemsOf(input.arg.driver)[i].code = 11000
    /\ ConcernsOf(input.arg.driver) # <<>>
    /\ ConcernsOf(input.arg.driver)[1].code # 11000
    /\ output.value.kind = "MultiError"

\* The kinds of error a normalization may answer with.
ErrorKinds == {"UnsupportedFeature", "ConversionError", "ConnectionError",
               "QueryError", "AuthenticationFailed", "UniqueConstraintViolation",
               "RawError", "MultiError", "InternalConversionError"}

\* C18: normalization answers for every native error (the call can always
\* return) with one error of a known kind, every entry of a MultiError being
\* of a known kind too; a driver error of a kind without an arm of its own
\* yields RawError with the code "unknown" and the rendered error as message.
C18_NormalizationTotal ==
    /\ (input.fn = "into_connector_error" /\ ~output.returned) =>
           ENABLED IntoConnectorErrorCall
    /\ Normalized =>
          /\ output.value.kind \in ErrorKinds
          /\ output.value.kind = "MultiError" =>
                \A i \in DOMAIN output.value.errors :
                    output.value.errors[i].kind \in ErrorKinds \ {"MultiError"}
    /\ (NormalizedDriverError /\ input.arg.driver.kind \in UnhandledKinds) =>
          /\ output.value.kind = "RawError"
          /\ output.value.code = <<"unknown">>
          /\ output.value.message = DriverDisplay(input.arg.driver)

\* An I/O error of the driver came out through the catch-all.
C18_Witness ==
    /\ NormalizedDriverError
    /\ input.arg.driver.kind = "Io"
    /\ output.value.code = <<"unknown">>

\* The categories of the table: the two connection failures are one
\* category, the two encoding failures are one.
CategoryOf(kind) ==
    CASE kind \in {"AddrParse", "DnsResolve"} -> "connection"
      [] kind \in {"BsonDecode", "BsonEncode"} -> "encoding"
      [] OTHER -> kind

\* C19: address-parse and DNS-resolution failures yield ConnectionError, an
\* authentication rejection AuthenticationFailed with the driver's message
\* as the user, a malformed argument QueryError, BSON decode and encode
\* failures InternalConversionError; errors of two categories never get the
\* same kind.
C19_DriverErrorTable ==
    /\ (NormalizedDriverError /\ input.arg.driver.kind \in MappedKinds) =>
          LET kind == input.arg.driver.kind
          IN  /\ kind \in {"AddrParse", "DnsResolve"} =>
                     output.value.kind = "ConnectionError"
              /\ kind = "AuthenticationError" =>
                     /\ output.value.kind = "AuthenticationFailed"
                     /\ output.value.user = input.arg.driver.message
              /\ kind = "ArgumentError" => output.value.kind = "QueryError"
              /\ kind \in {"BsonDecode", "BsonEncode"} =>
                     output.value.kind = "InternalConversionError"
    /\ \A e1, e2 \in [kind : MappedKinds, message : DriverMessages] :
          DriverErrorKind(e1).kind = DriverErrorKind(e2).kind =>
              CategoryOf(e1.kind) = CategoryOf(e2.kind)

\* An authentication rejection was normalized.
C19_Witness ==
    /\ NormalizedDriverError
    /\ input.arg.driver.kind = "AuthenticationError"
    /\ output.value.user = <<"user", " ", "alice">>

DescriberLoaded == input.fn = "load_describer" /\ output.returned

\* The backend the URL grammar promises for a scheme.
BackendOfScheme(scheme) ==
    CASE scheme \in {"postgres", "postgresql"} -> "postgres::SqlSchemaDescriber"
      [] scheme = "mysql" -> "mysql::SqlSchemaDescriber"
      [] scheme \in {"sqlite", "file"} -> "sqlite::SqlSchemaDescriber"
      [] scheme \in {"mongodb", "mongodb+srv"} -> "document-store backend"

RelationalSchemes == {"postgres", "postgresql", "mysql", "sqlite", "file"}

C26_NoReaderSuspended ==
    /\ readers = {}
    /\ \A p \in Procs : pc[p] \in {"idle", "wait", "loading", "probing"}

\* C26 amended: a call is suspended where it waits for the lock, where
\* connect awaits the load of the executor or the probe, and where query
\* awaits its handler; a query holds its read guard for as long as the
\* handler runs, and it is the only call that holds a read guard across a
\* suspension: every other reader is suspended nowhere but in the queue of
\* the lock.
C26_SuspensionPoints ==
    \A p \in Procs :
        /\ pc[p] \in {"idle", "wait", "loading", "probing", "executing"}
        /\ pc[p] \in {"loading", "probing"} => (op[p] = "connect" /\ writer = p)
        /\ pc[p] = "executing" => op[p] = "query"
        /\ (p \in readers) <=> (pc[p] = "executing")
        /\ (pc[p] # "idle" /\ op[p] \notin {"connect", "query"}) => pc[p] = "wait"

\* A connect waits for the lock while a query awaits its handler.
C26_Witness ==
    \E p, q \in Procs :
        /\ pc[p] = "executing"
        /\ p \in readers
        /\ pc[q] = "wait"
        /\ op[q] = "connect"

\* C27: whoever abandons a call, the lock is held by the calls that are
\* under way and by no other, the queue holds the waiting calls once each,
\* the executors alive are the state's and those of the connects that are
\* probing; and every connect and disconnect that was issued comes to its
\* end, given that the lock wakes its waiters and loads, probes and queries
\* in flight come to an end.
C27_TransitionsReturn ==
    /\ [](/\ \A p \in Procs :
                /\ (writer = p) <=> (pc[p] \in {"loading", "probing"})
                /\ (p \in readers) <=> (pc[p] = "executing")
                /\ (pc[p] = "wait") <=> (\E i \in DOMAIN waitq : waitq[i] = p)
          /\ \A i, j \in DOMAIN waitq : waitq[i] = waitq[j] => i = j
          /\ inner.tag \in {"Builder", "Connected"}
          /\ live = OwnedByState
                 \cup {executor[p].id : p \in {q \in Procs : pc[q] = "probing"}})
    /\ \A p \in Procs :
          (pc[p] # "idle" /\ op[p] \in Lifecycle) ~> (pc[p] = "idle")

\* A disconnect that had to wait has returned, and the caller whose query
\* it waited for is in the queue with its next query.
C27_Witness ==
    /\ ret.op = "disconnect"
    /\ ret.res = "Ok"
    /\ \E q \in Procs : pc[q] = "wait" /\ op[q] = "query"

\* C28: sdl_schema and dmmf return NotConnected on an Unconnected engine
\* and a rendering of the installed query schema on a Connected one, and
\* change nothing.
C28_SchemaRenderingsNeedConnection ==
    [][\A p \in Procs :
          /\ (ret'.proc = p /\ ret'.op = "sdl_schema") =>
                /\ inner.tag = "Builder" =>
                       (ret'.res = "NotConnected" /\ ret'.val = "none")
                /\ inner.tag = "Connected" =>
                       (ret'.res = "Ok" /\ ret'.val = <<"sdl", inner.query_schema>>)
                /\ inner' = inner
                /\ live' = live
                /\ writer' = writer
                /\ readers' = readers
          /\ (ret'.proc = p /\ ret'.op = "dmmf") =>
                /\ inner.tag = "Builder" =>
                       (ret'.res = "NotConnected" /\ ret'.val = "none")
                /\ inner.tag = "Connected" =>
                       /\ ret'.res = "Ok"
                       /\ ret'.val = <<"dmmf", inner.datamodel.ast, inner.query_schema>>
                /\ inner' = inner
                /\ live' = live
                /\ writer' = writer
                /\ readers' = readers]_vars

\* dmmf answered on an engine connected for the second time.
C28_Witness ==
    /\ ret.op = "dmmf"
    /\ ret.res = "Ok"
    /\ installs >= 2

FamilyOfDescriber(describer) ==
    CASE describer = "postgres::SqlSchemaDescriber" -> "Postgres"
      [] describer = "mysql::SqlSchemaDescriber" -> "Mysql"
      [] describer = "sqlite::SqlSchemaDescriber" -> "Sqlite"

\* C22: a successful load_describer returns the describer together with
\* the connection info parsed from the very URL it was given, and the
\* family of that connection info is the family of the describer.
C22_DescriptorOfSameUrl ==
    (DescriberLoaded /\ output.value.ok) =>
        /\ output.value.connection_info.url = input.arg
        /\ output.value.connection_info.sql_family =
               FamilyOfDescriber(output.value.describer)
        /\ constructed = {output.value.describer}

\* Reached: a mysql URL was loaded and came back with the Mysql family.
C22_Witness ==
    /\ DescriberLoaded
    /\ UrlScheme(input.arg) = "mysql"
    /\ output.value.ok
    /\ output.value.connection_info = [sql_family |-> "Mysql", url |-> input.arg]
    /\ output.value.describer = "mysql::SqlSchemaDescriber"

\* One of the two introspection entry points was called: the standalone
\* one, or the one QueryEngine::new runs.
Introspects == input.fn \in {"Introspection::introspect", "QueryEngine::new"}

\* The call is over, by a return or by a panic.
CallOver == output # NoOutput

\* The URL the first data source of a text resolves to.
ResolvedUrl(text) ==
    IF Head(text.datasources).from_env
    THEN "postgresql://env"
    ELSE Head(text.datasources).value

\* The backend answered the describe call of an introspection of the text.
Described(text, world) ==
    /\ text.parses
    /\ text.datasources # <<>>
    /\ Head(text.datasources).from_env => world.env_set
    /\ world.connector_ok
    /\ world.described.ok

\* The models of the document a successful call returned: of the rendered
\* schema, or of the data model of the engine.
ModelsReturned ==
    IF input.fn = "QueryEngine::new"
    THEN output.value.value.datamodel.ast.models
    ELSE output.value.value.models

C24_FailuresAreReturned ==
    (Introspects /\ CallOver) =>
        /\ output.returned
        /\ ~Described(input.arg.schema, input.arg.world) =>
              output.value.status = "Err"

\* C25 as stated: a result of prisma_introspect has schema and sdl set
\* and error unset, and then the introspection, the construction of the
\* engine and connect all succeeded; or it has error set and schema and
\* sdl unset.
C25_TwoShapes ==
    (input.fn = "prisma_introspect" /\ output.returned) =>
        \/ /\ output.value.schema.some
           /\ output.value.sdl.some
           /\ ~output.value.error.some
           /\ Described(input.arg.schema, input.arg.world)
           /\ input.arg.world.described.models # <<>>
           /\ input.arg.second.connector_ok
           /\ input.arg.second.described.ok
           /\ input.arg.second.described.models # <<>>
           /\ input.arg.connect = "Ok"
        \/ /\ output.value.error.some
           /\ ~output.value.schema.some
           /\ ~output.value.sdl.some

\* C31: a disconnect that finds the engine Connected and fails to derive
\* the configuration again returns a conversion error and leaves the state
\* as it was: the same Connected value (executor, query schema, schema
\* document), its executor still alive, the write guard released.
C31_FailedDisconnectKeepsConnected ==
    [][\A p \in Procs :
          (DisconnectRuns(p) /\ ret'.res = "Conversion") =>
              /\ inner.tag = "Connected"
              /\ inner' = inner
              /\ live' = live
              /\ inner'.executor.id \in live'
              /\ writer' = NoProc
              /\ pc'[p] = "idle"]_vars

\* Reached: a disconnect returned the conversion error on a Connected
\* engine whose executor is alive.
C31_Witness ==
    /\ ret.op = "disconnect"
    /\ ret.res = "Conversion"
    /\ inner.tag = "Connected"
    /\ live = {inner.executor.id}

\* C32: successful connects and disconnects alternate, beginning with a
\* connect: the engine starts Unconnected, a connect returns Ok only in a
\* step from Unconnected to Connected, a disconnect returns Ok only in a
\* step from Connected to Unconnected, and no other step changes between
\* the two.
C32_ConnectsAndDisconnectsAlternate ==
    /\ (installs = 0 /\ nextExec = 0) => inner.tag = "Builder"
    /\ [][/\ (ret'.op = "connect" /\ ret'.res = "Ok" /\ ret'.proc # NoProc) =>
                (inner.tag = "Builder" /\ inner'.tag = "Connected")
          /\ (ret'.op = "disconnect" /\ ret'.res = "Ok" /\ ret'.proc # NoProc) =>
                (inner.tag = "Connected" /\ inner'.tag = "Builder")
          /\ (inner.tag = "Builder" /\ inner'.tag = "Connected") =>
                (ret'.op = "connect" /\ ret'.res = "Ok")
          /\ (inner.tag = "Connected" /\ inner'.tag = "Builder") =>
                (ret'.op = "disconnect" /\ ret'.res = "Ok")]_vars

\* Reached: the second successful disconnect.
C32_Witness ==
    /\ ret.op = "disconnect"
    /\ ret.res = "Ok"
    /\ installs >= 2
    /\ inner.tag = "Builder"

\* What QueryEngine::new gives for every text and database: on success an
\* Unconnected engine with no overrides and the text of the caller as raw
\* text, otherwise an error or a panic and no engine.
ConstructedEngines ==
    \A text \in IntrospectionTexts, world \in Worlds :
        IF QueryEngineNew(text, world).status = "Ok"
        THEN /\ QueryEngineNew(text, world).value.tag = "Builder"
             /\ QueryEngineNew(text, world).value.datamodel.datasource_overrides = <<>>
             /\ QueryEngineNew(text, world).value.datamodel.raw = text
        ELSE "value" \notin DOMAIN QueryEngineNew(text, world)

\* C33: QueryEngine::new returns an Unconnected engine with empty
\* overrides and the schema text of the caller as raw text, or no engine;
\* and until the first successful connect the engine stays Unconnected
\* with that document and query, sdl_schema and dmmf return NotConnected.
C33_NewEngineUnconnected ==
    /\ ConstructedEngines
    /\ installs = 0 =>
          /\ inner.tag = "Builder"
          /\ inner.datamodel.datasource_overrides = <<>>
          /\ inner.datamodel.raw = schema
          /\ ret.op \in {"query", "sdl_schema", "dmmf"} =>
                ret.res = "NotConnected"

\* Reached: a connect has failed at the probe, no connect has succeeded,
\* and a query returned NotConnected.
C33_Witness ==
    /\ installs = 0
    /\ nextExec >= 1
    /\ ret.op = "query"
    /\ ret.res = "NotConnected"

====
